---- MODULE Spec2Model ----
(***************************************************************************)
(* Model of observability/grafana/grafana.py: one or more runs of main()   *)
(* against a Grafana instance.  A JSON object is a record whose keys are   *)
(* all present and hold Absent when the Python dict has no such key; JSON  *)
(* scalars are strings ("null" is None, "0" the number 0, "7" the number   *)
(* 7), so that Python's dict equality is record equality.                  *)
(*                                                                         *)
(* Second part: tooling/azure-automation/resources-cleanup, one run of the *)
(* runbook over the resource groups of a subscription (SpecCleanup).       *)
(* Times are whole seconds; a createdAt tag is the string it holds, cut    *)
(* into its date-time, its fraction and its suffix.                        *)
(***************************************************************************)
EXTENDS Integers, Sequences, FiniteSets, TLC

\* ---------------------------------------------------------------- bounds
MaxFolders == 2
MaxDash == 2
MaxRemoteDash == 1
MaxRuns == 2
MaxGroups == 2

\* ------------------------------------------------------------ JSON values
Absent == "<absent>"
Null == "null"

\* Python truthiness of a scalar read with dict.get(key, None)
Truthy(v) == v \notin {Absent, Null, "", "0"}

\* del d[key]
Del(d, key) == [d EXCEPT ![key] = Absent]

\* templating variables
VProm == [query |-> "prometheus", name |-> "datasource", regex |-> "r"]
VLoki == [query |-> "loki", name |-> "logs", regex |-> Absent]
VPromNoRegex == [query |-> "prometheus", name |-> "datasource", regex |-> Absent]
VPromOther == [query |-> "prometheus", name |-> "ds", regex |-> "r"]

\* the "templating" value of a dashboard body
TAbsent == [present |-> FALSE, haslist |-> FALSE, list |-> <<>>]
TDict(l) == [present |-> TRUE, haslist |-> TRUE, list |-> l]
TEmptyDict == [present |-> TRUE, haslist |-> FALSE, list |-> <<>>]

Body(t, u, i, v, tpl) ==
    [title |-> t, uid |-> u, id |-> i, version |-> v, templating |-> tpl]

EmptyBody == Body(Absent, Absent, Absent, Absent, TAbsent)
Good == Body("t1", "u1", Absent, Absent, TDict(<<VProm>>))

\* uids of 40 and of 41 characters
Uid40 == "u234567890123456789012345678901234567890"
Uid41 == "u2345678901234567890123456789012345678901"

\* desired dashboards a source directory may hold (fs_get_dashboards wraps
\* every file in the {"dashboard": ...} envelope)
DesiredBodies ==
    { Good,
      [Good EXCEPT !.id = Null],
      [Good EXCEPT !.id = "7", !.version = "1"],
      [Good EXCEPT !.templating = TDict(<<VProm, VLoki>>)],
      [Good EXCEPT !.title = "t2"],
      [Good EXCEPT !.title = Absent],
      [Good EXCEPT !.uid = Absent],
      EmptyBody,
      [Good EXCEPT !.templating = TAbsent],
      [Good EXCEPT !.templating = TDict(<<>>)],
      [Good EXCEPT !.templating = TDict(<<VLoki>>)],
      [Good EXCEPT !.templating = TEmptyDict],
      [Good EXCEPT !.templating = TDict(<<VPromNoRegex>>)],
      [Good EXCEPT !.templating = TDict(<<VPromOther>>)],
      [Good EXCEPT !.uid = Uid40],
      [Good EXCEPT !.uid = Uid41] }

\* sequences over S of length at most n
BSeq(S, n) == UNION { [1..k -> S] : k \in 0..n }

\* the files of one source directory: any desired dashboard, then ordinary ones
FollowerBodies == { Good, [Good EXCEPT !.title = "t2"] }

DesiredSeqs(n) ==
    {<<>>} \cup { <<b>> \o t : b \in DesiredBodies,
                              t \in BSeq(FollowerBodies, n - 1) }

Range(s) == { s[i] : i \in 1..Len(s) }

\* ------------------------------------------------------- pure functions
\* upper-casing of the folder names of the model
Upper(s) == IF s \in {"svc", "Svc"} THEN "SVC" ELSE s

get_folder_uid_nocase(name, grafana_folders) ==
    LET found == SelectSeq(grafana_folders,
                           LAMBDA n : Upper(n.title) = Upper(name))
    IN  IF found # <<>> THEN found[1].uid ELSE ""

get_folder_uid(name, grafana_folders) ==
    LET found == SelectSeq(grafana_folders, LAMBDA n : n.title = name)
    IN  IF found # <<>> THEN found[1].uid ELSE ""

NoError == "None"

\* validate_dashboard_errors with the uid limit tested by >=
validate_dashboard_errors_ge(data) ==
    LET dashboard == data.dashboard
        templating == dashboard.templating
        variables == templating.list
    IN  IF dashboard = EmptyBody
          THEN "Invalid dashboard, missing 'dashboard' key"
        ELSE IF ~Truthy(dashboard.title)
          THEN "Invalid dashboard, missing 'title' key"
        ELSE IF ~Truthy(dashboard.uid)
          THEN "Invalid dashboard, missing 'uid' key"
        ELSE IF Len(dashboard.uid) >= 40
          THEN "Dashboard uid is too long, must be less than 40 characters"
        ELSE IF ~templating.present \/ templating = TEmptyDict
          THEN "Dashboard is missing 'templating' key"
        ELSE IF variables = <<>>
          THEN "Dashboard does not have any variables set"
        ELSE IF \A i \in 1..Len(variables) : variables[i].query # "prometheus"
          THEN "Dashboard does not have a datasource of type prometheus"
        ELSE NoError

validate_dashboard_errors(data) ==
    LET dashboard == data.dashboard
        templating == dashboard.templating
        variables == templating.list
    IN  IF dashboard = EmptyBody
          THEN "Invalid dashboard, missing 'dashboard' key"
        ELSE IF ~Truthy(dashboard.title)
          THEN "Invalid dashboard, missing 'title' key"
        ELSE IF ~Truthy(dashboard.uid)
          THEN "Invalid dashboard, missing 'uid' key"
        ELSE IF Len(dashboard.uid) > 40
          THEN "Dashboard uid is too long, must be less than 40 characters"
        ELSE IF ~templating.present \/ templating = TEmptyDict
          THEN "Dashboard is missing 'templating' key"
        ELSE IF variables = <<>>
          THEN "Dashboard does not have any variables set"
        ELSE IF \A i \in 1..Len(variables) : variables[i].query # "prometheus"
          THEN "Dashboard does not have a datasource of type prometheus"
        ELSE NoError

validate_dashboard_warnings(data) ==
    LET variables == data.dashboard.templating.list
        named == SelectSeq(variables, LAMBDA v : v.name = "datasource")
    IN  IF named = <<>> \/ ~Truthy(named[1].regex)
          THEN "Dashboard does not have a regex set for the datasource variable"
          ELSE NoError

\* ------------------------------------------------------------------ state
VARIABLES
    config,            \* parsed observability.yaml plus the dashboard files
    dry_run,           \* DRY_RUN
    rFolders,          \* folders held by the Grafana instance
    rDash,             \* dashboards held by the Grafana instance
    pc,                \* position of main()
    run,               \* number of the current invocation of main()
    existing_folders,
    existing_dashboards,
    fi,                \* index of local_folder in dashboardFolders
    di,                \* index of dashboard in the folder's files
    ri,                \* index of d in existing_dashboards
    folder_uid,
    dashboards_visited,
    dashboard_validation_errors,
    dashboard_validation_warnings,
    calls,             \* calls made on the GrafanaRunner, oldest first
    exit_status        \* process exit status, NoStatus while running

\* resources_cleanup.py
VARIABLES
    subscription,          \* resource groups held by the subscription
    now,                   \* datetime.now(datetime.timezone.utc)
    DRY_RUN,
    cpc,                   \* position of the runbook's main()
    resource_groups_list,
    rgi,                   \* index of resource_group in resource_groups_list
    begin_delete_calls,    \* names passed to resource_groups.begin_delete
    outcomes               \* what process_resource_group did, per group

gvars == << config, dry_run, rFolders, rDash, pc, run, existing_folders,
            existing_dashboards, fi, di, ri, folder_uid, dashboards_visited,
            dashboard_validation_errors, dashboard_validation_warnings,
            calls, exit_status >>

cvars == << subscription, now, DRY_RUN, cpc, resource_groups_list, rgi,
            begin_delete_calls, outcomes >>

vars == << gvars, cvars >>

\* the runbook is not running
CleanupIdle ==
    /\ subscription = <<>>
    /\ now = 0
    /\ DRY_RUN = FALSE
    /\ cpc = "idle"
    /\ resource_groups_list = <<>>
    /\ rgi = 0
    /\ begin_delete_calls = <<>>
    /\ outcomes = <<>>

NoStatus == 99
FailCode == 2
ExcCode == 1

\* uid the Grafana instance gives to its n-th folder
FolderUid(n) == "f" \o <<"1", "2", "3", "4", "5", "6", "7", "8", "9">>[n]

\* uid the Grafana instance generates for a dashboard written without one
GenUid == "gen"

\* a body as the Grafana instance stores it: it assigns id and version
Stored(b, ver) ==
    [b EXCEPT !.uid = IF Truthy(b.uid) THEN b.uid ELSE GenUid,
              !.id = "7", !.version = ver]

\* az grafana dashboard list: summaries without the body
Summary(e) ==
    [uid |-> e.body.uid, title |-> e.body.title, folderUid |-> e.folderUid]

Listing(rd) == [i \in 1..Len(rd) |-> Summary(rd[i])]

\* az grafana dashboard show --dashboard uid
ShowBody(rd, uid) == SelectSeq(rd, LAMBDA e : e.body.uid = uid)[1].body

\* az grafana dashboard update --overwrite true: upsert by uid
Upsert(rd, body, fuid) ==
    LET u == IF Truthy(body.uid) THEN body.uid ELSE GenUid
        old == { i \in 1..Len(rd) : rd[i].body.uid = u }
        entry == [folderUid |-> IF fuid = "" THEN Absent ELSE fuid,
                  body |-> Stored(body, IF old = {} THEN "1" ELSE "2")]
    IN  IF old = {} THEN Append(rd, entry)
        ELSE [i \in 1..Len(rd) |-> IF i \in old THEN entry ELSE rd[i]]

\* one call on the GrafanaRunner: its argument, the body it carries or
\* fetches, the folder uid it carries or returns, whether a command was run
\* on the instance and whether that command succeeded
Call(op, arg, body, fuid, executed, ok) ==
    [run |-> run, op |-> op, arg |-> arg, fi |-> fi, di |-> di, ri |-> ri,
     body |-> body, folderUid |-> fuid, executed |-> executed, ok |-> ok]

\* ------------------------------------------------------------------- Init
RemoteTitles == {"svc", "azure"}
ConfigNames == {"svc", "Svc"}

RemoteFolderSeqs ==
    { [i \in 1..Len(ts) |-> [title |-> ts[i], uid |-> FolderUid(i)]] :
        ts \in BSeq(RemoteTitles, 2) }

RemoteBodies == { Stored(Good, "1"), Stored([Good EXCEPT !.uid = "u2"], "1") }

\* dashboards of the instance: uids are unique, folders exist
RemoteDashSeqs(rf) ==
    { rd \in BSeq([folderUid : {Absent} \cup { f.uid : f \in Range(rf) },
                   body : RemoteBodies], MaxRemoteDash) :
        \A i, j \in 1..Len(rd) : rd[i].body.uid = rd[j].body.uid => i = j }

ProtectedSeqs == { <<>>, <<"azure">> }

\* configurations that vary the folders
FolderScenarios ==
    { sc \in [folders : BSeq([name : ConfigNames,
                              dashboards : {<<>>, <<Good>>}], MaxFolders),
              amf : ProtectedSeqs, dry : BOOLEAN, rf : RemoteFolderSeqs,
              rd : BSeq([folderUid : {Absent, "f1", "f2"},
                         body : RemoteBodies], MaxRemoteDash)] :
        sc.rd \in RemoteDashSeqs(sc.rf) }

\* configurations that vary the dashboards of one folder
DashScenarios ==
    LET rf == << [title |-> "svc", uid |-> "f1"],
                 [title |-> "azure", uid |-> "f2"] >>
    IN  [folders : { << [name |-> "svc", dashboards |-> ds] >> :
                        ds \in DesiredSeqs(MaxDash) },
         amf : ProtectedSeqs, dry : BOOLEAN, rf : {rf},
         rd : RemoteDashSeqs(rf)]

\* a listing that repeats a uid within one folder
DupScenarios ==
    LET rf == << [title |-> "svc", uid |-> "f1"],
                 [title |-> "azure", uid |-> "f2"] >>
        rd == << [folderUid |-> "f1", body |-> Stored(Good, "1")],
                 [folderUid |-> "f1",
                  body |-> Stored([Good EXCEPT !.title = "t2"], "2")] >>
    IN  [folders : { << [name |-> "svc", dashboards |-> <<Good>>] >> },
         amf : ProtectedSeqs, dry : BOOLEAN, rf : {rf}, rd : {rd}]

Init ==
    /\ \E sc \in FolderScenarios \cup DashScenarios \cup DupScenarios :
        /\ config = [dashboardFolders |-> sc.folders,
                     azureManagedFolders |-> sc.amf]
        /\ dry_run = sc.dry
        /\ rFolders = sc.rf
        /\ rDash = sc.rd
    /\ pc = "list"
    /\ run = 1
    /\ existing_folders = <<>>
    /\ existing_dashboards = <<>>
    /\ fi = 0
    /\ di = 0
    /\ ri = 0
    /\ folder_uid = ""
    /\ dashboards_visited = {}
    /\ dashboard_validation_errors = <<>>
    /\ dashboard_validation_warnings = <<>>
    /\ calls = <<>>
    /\ exit_status = NoStatus
    /\ CleanupIdle

\* ---------------------------------------------------------------- actions
Folders == config.dashboardFolders

\* f-string key of the visited set
VisitedKey(fuid, title) == fuid \o "_" \o title

\* d.get("folderUid", "")
FolderUidOf(d) == IF d.folderUid = Absent THEN "" ELSE d.folderUid

\* the loop over existing_dashboards nested in the loop over the folders
LoopNext_nested(f, d, existing) ==
    IF f >= 1 /\ d < Len(Folders[f].dashboards)
      THEN [pc |-> "validate", fi |-> f, di |-> d + 1, ri |-> 0]
    ELSE IF existing # <<>>
      THEN [pc |-> "reclaim", fi |-> f, di |-> d, ri |-> 1]
    ELSE IF f < Len(Folders)
      THEN [pc |-> "folder", fi |-> f + 1, di |-> 0, ri |-> 0]
    ELSE [pc |-> "report", fi |-> f, di |-> d, ri |-> 0]

\* position of main() once dashboard d of folder f is done (d = 0: once
\* folder f is resolved); the second loop starts when the first is over
LoopNext(f, d, existing) ==
    IF f >= 1 /\ d < Len(Folders[f].dashboards)
      THEN [pc |-> "validate", fi |-> f, di |-> d + 1, ri |-> 0]
    ELSE IF f < Len(Folders)
      THEN [pc |-> "folder", fi |-> f + 1, di |-> 0, ri |-> 0]
    ELSE IF existing # <<>>
      THEN [pc |-> "reclaim", fi |-> f, di |-> d, ri |-> 1]
    ELSE [pc |-> "report", fi |-> f, di |-> d, ri |-> 0]

Goto(pos) ==
    /\ pc' = pos.pc
    /\ fi' = pos.fi
    /\ di' = pos.di
    /\ ri' = pos.ri

\* run_command that goes on after a failed command
Abort_ignored ==
    /\ Goto(LoopNext(fi, di, existing_dashboards))
    /\ UNCHANGED exit_status

\* run_command exits the process with the return code of the failed command
Abort ==
    /\ pc' = "exited"
    /\ exit_status' = FailCode
    /\ UNCHANGED << fi, di, ri >>

\* an uncaught Python exception ends the process
Crash ==
    /\ pc' = "crashed"
    /\ exit_status' = ExcCode
    /\ UNCHANGED << fi, di, ri >>

\* main: g.list_existing_folders(), g.list_existing_dashboards()
ListRemote ==
    /\ pc = "list"
    /\ \E ok1, ok2 \in BOOLEAN :
        /\ ~ok1 => ok2
        /\ calls' = calls \o
              << Call("list_existing_folders", "", EmptyBody, "", TRUE, ok1) >>
              \o (IF ok1 THEN << Call("list_existing_dashboards", "",
                                      EmptyBody, "", TRUE, ok2) >>
                         ELSE <<>>)
        /\ IF ok1 /\ ok2
             THEN /\ existing_folders' = rFolders
                  /\ existing_dashboards' = Listing(rDash)
                  /\ Goto(LoopNext(0, 0, Listing(rDash)))
                  /\ UNCHANGED exit_status
             ELSE /\ Abort
                  /\ UNCHANGED << existing_folders, existing_dashboards >>
    /\ UNCHANGED << cvars, config, dry_run, rFolders, rDash, run, folder_uid,
                    dashboards_visited, dashboard_validation_errors,
                    dashboard_validation_warnings >>

\* main: folder_uid = get_or_create_folder(local_folder["name"], ...)
ResolveFolder ==
    /\ pc = "folder"
    /\ LET name == Folders[fi].name
           existing_uid == get_folder_uid(name, existing_folders)
           new == [title |-> name, uid |-> FolderUid(Len(rFolders) + 1)]
       IN  IF existing_uid # ""
             THEN /\ folder_uid' = existing_uid
                  /\ Goto(LoopNext(fi, 0, existing_dashboards))
                  /\ UNCHANGED << calls, rFolders, exit_status >>
           ELSE IF dry_run
             THEN /\ folder_uid' = ""
                  /\ calls' = Append(calls, Call("create_folder", name,
                                                 EmptyBody, "", FALSE, TRUE))
                  /\ Goto(LoopNext(fi, 0, existing_dashboards))
                  /\ UNCHANGED << rFolders, exit_status >>
           ELSE \E ok \in BOOLEAN :
                  /\ calls' = Append(calls, Call("create_folder", name,
                                      EmptyBody, IF ok THEN new.uid ELSE "",
                                      TRUE, ok))
                  /\ IF ok
                       THEN /\ rFolders' = Append(rFolders, new)
                            /\ folder_uid' = new.uid
                            /\ Goto(LoopNext(fi, 0, existing_dashboards))
                            /\ UNCHANGED exit_status
                       ELSE /\ Abort
                            /\ UNCHANGED << rFolders, folder_uid >>
    /\ UNCHANGED << cvars, config, dry_run, rDash, run, existing_folders,
                    existing_dashboards, dashboards_visited,
                    dashboard_validation_errors,
                    dashboard_validation_warnings >>

\* main: the two validations of one dashboard and their bookkeeping (the
\* folder's name stands for local_folder["path"] in the tables)
ValidateDashboard ==
    /\ pc = "validate"
    /\ LET local_folder == Folders[fi]
           dashboard == [dashboard |-> local_folder.dashboards[di]]
           title == dashboard.dashboard.title
           error == validate_dashboard_errors(dashboard)
           warning == validate_dashboard_warnings(dashboard)
       IN  IF (error # NoError \/ warning # NoError) /\ title = Absent
             THEN \* KeyError: dashboard["dashboard"]["title"]
                  /\ Crash
                  /\ UNCHANGED << dashboard_validation_errors,
                                  dashboard_validation_warnings >>
             ELSE /\ dashboard_validation_errors' =
                        IF error # NoError
                          THEN Append(dashboard_validation_errors,
                                      << local_folder.name, title, error >>)
                          ELSE dashboard_validation_errors
                  /\ dashboard_validation_warnings' =
                        IF warning # NoError
                          THEN Append(dashboard_validation_warnings,
                                      << local_folder.name, title, warning >>)
                          ELSE dashboard_validation_warnings
                  /\ pc' = "apply"
                  /\ UNCHANGED << fi, di, ri, exit_status >>
    /\ UNCHANGED << cvars, config, dry_run, rFolders, rDash, run, existing_folders,
                    existing_dashboards, folder_uid, dashboards_visited,
                    calls >>

\* create_dashboard: remote entries with the desired uid in the target folder
dashboard_found(body, fuid, existing) ==
    SelectSeq(existing, LAMBDA e : e.uid = body.uid /\ FolderUidOf(e) = fuid)

\* create_dashboard that leaves the folder out of the file it writes
stamp_folderUid_none(fuid) == ""

\* create_dashboard: dashboard["folderUid"] = folder_uid, the folder in the
\* file that the write command carries
stamp_folderUid(fuid) == fuid

\* create_dashboard with its assertion removed
assertion_fails_never(found) == FALSE

\* create_dashboard: if dashboard_found: assert len(dashboard_found) == 1
assertion_fails(found) == found # <<>> /\ Len(found) # 1

\* if d.get(key, None): del d[key]
StripIf(d, key) == IF Truthy(d[key]) THEN Del(d, key) ELSE d

\* create_dashboard: the fields deleted from the fetched body
strip_existing(b) == StripIf(StripIf(StripIf(b, "uid"), "id"), "version")

\* create_dashboard: the fields deleted from the desired body
strip_desired(b) == StripIf(StripIf(b, "id"), "version")

\* main: create_dashboard(...) and dashboards_visited.add(...)
ApplyDashboard ==
    /\ pc = "apply"
    /\ LET body == Folders[fi].dashboards[di]
           found == dashboard_found(body, folder_uid, existing_dashboards)
           matched == found # <<>>
       IN  IF existing_dashboards # <<>> /\ body.uid = Absent
             THEN \* KeyError: dashboard["dashboard"]["uid"]
                  Crash /\ UNCHANGED << calls, rDash, dashboards_visited >>
           ELSE IF assertion_fails(found)
             THEN \* AssertionError
                  Crash /\ UNCHANGED << calls, rDash, dashboards_visited >>
           ELSE \E okShow, okWrite \in BOOLEAN :
             LET fetched == IF matched THEN ShowBody(rDash, found[1].uid)
                                       ELSE EmptyBody
                 same == /\ matched
                         /\ strip_existing(fetched) = strip_desired(body)
                 doWrite == okShow /\ ~same
                 showCall ==
                     IF matched
                       THEN << Call("show_existing_dashboard", found[1].uid,
                                    fetched, "", TRUE, okShow) >>
                       ELSE <<>>
                 writeCall ==
                     IF doWrite /\ body.title # Absent
                       THEN << Call("create_dashboard", body.title, body,
                                    stamp_folderUid(folder_uid), ~dry_run,
                                    okWrite) >>
                       ELSE <<>>
             IN  /\ ~matched => okShow
                 /\ ~(doWrite /\ ~dry_run /\ body.title # Absent) => okWrite
                 /\ calls' = calls \o showCall \o writeCall
                 /\ IF ~okShow \/ ~okWrite
                      THEN Abort /\ UNCHANGED << rDash, dashboards_visited >>
                    ELSE IF body.title = Absent
                      THEN \* KeyError: dashboard['dashboard']['title']
                           Crash /\ UNCHANGED << rDash, dashboards_visited >>
                    ELSE /\ rDash' = IF doWrite /\ ~dry_run
                                       THEN Upsert(rDash, body,
                                                   stamp_folderUid(folder_uid))
                                       ELSE rDash
                         /\ dashboards_visited' = dashboards_visited \cup
                                { VisitedKey(folder_uid, body.title) }
                         /\ Goto(LoopNext(fi, di, existing_dashboards))
                         /\ UNCHANGED exit_status
    /\ UNCHANGED << cvars, config, dry_run, rFolders, run, existing_folders,
                    existing_dashboards, folder_uid,
                    dashboard_validation_errors,
                    dashboard_validation_warnings >>

\* GrafanaRunner.delete_dashboard that runs its command in every mode
delete_dashboard_runs_always(dry) == TRUE

\* delete_stale_dashboard without the test of the visited set
delete_stale_novisit(d, visited, folders, azure_managed_folders) ==
    ~ \E i \in 1..Len(azure_managed_folders) :
          LET uid == get_folder_uid(azure_managed_folders[i], folders)
          IN  uid # "" /\ uid = FolderUidOf(d)

\* delete_stale_dashboard without the loop over the protected folders
delete_stale_noprotect(d, visited, folders, azure_managed_folders) ==
    VisitedKey(FolderUidOf(d), d.title) \notin visited

\* delete_stale_dashboard without the test that the resolved uid is not empty
delete_stale_emptyuid(d, visited, folders, azure_managed_folders) ==
    /\ VisitedKey(FolderUidOf(d), d.title) \notin visited
    /\ ~ \E i \in 1..Len(azure_managed_folders) :
          get_folder_uid(azure_managed_folders[i], folders) = FolderUidOf(d)

\* delete_stale_dashboard: TRUE when g.delete_dashboard(d["title"]) is called
delete_stale_dashboard(d, visited, folders, azure_managed_folders) ==
    /\ VisitedKey(FolderUidOf(d), d.title) \notin visited
    /\ ~ \E i \in 1..Len(azure_managed_folders) :
          LET uid == get_folder_uid(azure_managed_folders[i], folders)
          IN  uid # "" /\ uid = FolderUidOf(d)

\* GrafanaRunner.delete_dashboard that runs its command unless dry_run
delete_dashboard_runs_command(dry) == ~dry

\* GrafanaRunner.delete_dashboard: TRUE when the delete command is run; the
\* else branch only evaluates the command string
delete_dashboard_runs(dry) == FALSE

\* az grafana dashboard delete --dashboard ident: the dashboard that the
\* identifier designates leaves the instance
DeleteDashboard(rd, ident) ==
    SelectSeq(rd, LAMBDA e : e.body.uid # ident /\ e.body.title # ident)

\* main: one iteration of the loop over existing_dashboards
ReclaimStep ==
    /\ pc = "reclaim"
    /\ LET d == existing_dashboards[ri]
       IN  calls' =
             IF delete_stale_dashboard(d, dashboards_visited, existing_folders,
                                       config.azureManagedFolders)
               THEN Append(calls, Call("delete_dashboard", d.title, EmptyBody,
                                       FolderUidOf(d),
                                       delete_dashboard_runs(dry_run), TRUE))
               ELSE calls
    /\ LET d == existing_dashboards[ri]
       IN  rDash' =
             IF /\ delete_stale_dashboard(d, dashboards_visited,
                       existing_folders, config.azureManagedFolders)
                /\ delete_dashboard_runs(dry_run)
               THEN DeleteDashboard(rDash, d.title)
               ELSE rDash
    /\ IF ri < Len(existing_dashboards)
         THEN ri' = ri + 1 /\ pc' = "reclaim"
         ELSE ri' = ri /\ pc' = "report"
    /\ UNCHANGED << cvars, config, dry_run, rFolders, run, existing_folders,
                    existing_dashboards, fi, di, folder_uid,
                    dashboards_visited, dashboard_validation_errors,
                    dashboard_validation_warnings, exit_status >>

\* main that also fails on warnings
final_status_warn(errors, warnings) ==
    IF errors # <<>> \/ warnings # <<>> THEN 1 ELSE 0

\* main: exit(1) if dashboard_validation_errors, else the process ends with 0
final_status(errors, warnings) == IF errors # <<>> THEN 1 ELSE 0

\* main: the tables of warnings and errors, exit(1) on errors
Report ==
    /\ pc = "report"
    /\ pc' = "exited"
    /\ exit_status' = final_status(dashboard_validation_errors,
                                   dashboard_validation_warnings)
    /\ UNCHANGED << cvars, config, dry_run, rFolders, rDash, run, existing_folders,
                    existing_dashboards, fi, di, ri, folder_uid,
                    dashboards_visited, dashboard_validation_errors,
                    dashboard_validation_warnings, calls >>

\* the pipeline invokes main() again on the same sources once a run has
\* reported
Rerun ==
    /\ pc = "exited"
    /\ exit_status \in {0, 1}
    /\ run < MaxRuns
    /\ run' = run + 1
    /\ pc' = "list"
    /\ existing_folders' = <<>>
    /\ existing_dashboards' = <<>>
    /\ fi' = 0
    /\ di' = 0
    /\ ri' = 0
    /\ folder_uid' = ""
    /\ dashboards_visited' = {}
    /\ dashboard_validation_errors' = <<>>
    /\ dashboard_validation_warnings' = <<>>
    /\ exit_status' = NoStatus
    /\ UNCHANGED << cvars, config, dry_run, rFolders, rDash, calls >>

Next ==
    \/ ListRemote
    \/ ResolveFolder
    \/ ValidateDashboard
    \/ ApplyDashboard
    \/ ReclaimStep
    \/ Report
    \/ Rerun

Spec == Init /\ [][Next]_vars

TypeOK ==
    /\ pc \in {"list", "folder", "validate", "apply", "reclaim", "report",
               "exited", "crashed"}
    /\ run \in 1..MaxRuns
    /\ dry_run \in BOOLEAN

\* ======================================================================
\* tooling/azure-automation/resources-cleanup/src/resources_cleanup.py
\* ======================================================================
Day == 86400

\* the instant of the run, in seconds
Now == 1000 * Day

\* the thresholds of the two age tests, in days
TwoDays == 2
OneMonth == 30

\* a createdAt string: date and time to the second, an optional fraction of
\* a second, an optional Z or z suffix
Iso(t, frac, z) == [kind |-> "iso", t |-> t, frac |-> frac, z |-> z]

\* a createdAt string that is no date, as "invalid-date-format"
Garbage == [kind |-> "garbage", t |-> 0, frac |-> FALSE, z |-> ""]

\* no createdAt key among the tags
NoCreatedAt == [kind |-> "absent", t |-> 0, frac |-> FALSE, z |-> ""]

\* distances from now, around each threshold and a day beyond it
Offsets ==
    LET near(n) == { n * Day - 1, n * Day, n * Day + 1,
                     (n + 1) * Day - 1, (n + 1) * Day }
        d == near(TwoDays) \cup near(OneMonth)
    IN  {0} \cup d \cup { 0 - x : x \in d }

CreatedAtTags ==
    { Iso(Now + off, TRUE, "Z") : off \in Offsets }
      \cup { Iso(Now - 3 * Day, FALSE, "z"), Iso(Now - 3 * Day, FALSE, ""),
             Garbage, NoCreatedAt }

\* resource_group.tags is None
NoTags == [present |-> FALSE, persist |-> Absent, createdAt |-> NoCreatedAt]

TagSets ==
    {NoTags} \cup [present : {TRUE},
                   persist : {Absent, "true", "True", "false"},
                   createdAt : CreatedAtTags]

\* a name is the sequence of its parts
GroupNames ==
    { << "hcp-underlay-pers-", "dev" >>, << "hcp-underlay-", "dev" >>,
      << "rg1" >> }

NotManaged == "None"

ResourceGroups ==
    [name : GroupNames, tags : TagSets, managed_by : {NotManaged, "aks"}]

OldTags == [present |-> TRUE, persist |-> Absent,
            createdAt |-> Iso(Now - 40 * Day, TRUE, "Z")]

\* the groups after the first of a subscription: old ones
FollowerGroups ==
    { [name |-> << "rg2" >>, tags |-> OldTags, managed_by |-> NotManaged],
      [name |-> << "hcp-underlay-pers-", "qa" >>, tags |-> OldTags,
       managed_by |-> NotManaged],
      [name |-> << "rg3" >>, tags |-> [OldTags EXCEPT !.persist = "True"],
       managed_by |-> NotManaged] }

\* the names of the groups of a subscription are distinct
Subscriptions ==
    {<<>>} \cup
    { <<g>> \o rest : g \in ResourceGroups,
                      rest \in { r \in BSeq(FollowerGroups, MaxGroups - 1) :
                                  \A i, j \in 1..Len(r) :
                                     r[i].name = r[j].name => i = j } }

\* str.lower() on the persist values of the model
Lower(s) == IF s \in {"true", "True"} THEN "true" ELSE s

\* name.startswith(prefix)
startswith(name, prefix) == name # <<>> /\ name[1] = prefix

\* a datetime, None, or the exception raised instead of a result
DateTime(t) == [exc |-> "None", none |-> FALSE, t |-> t]
NoneTime == [exc |-> "None", none |-> TRUE, t |-> 0]
Raised(e) == [exc |-> e, none |-> TRUE, t |-> 0]

\* the Z or z is removed, the string is cut at its dot, +00:00 is appended
\* and datetime.fromisoformat reads the result
get_date_time_from_str(date_time_str) ==
    LET no_z == [date_time_str EXCEPT !.z = ""]
        cut == [no_z EXCEPT !.frac = FALSE]
    IN  IF cut.kind = "iso" THEN DateTime(cut.t) ELSE Raised("ValueError")

get_creation_time_of_resource_group(resource_group) ==
    IF resource_group.tags.present
         /\ resource_group.tags.createdAt.kind # "absent"
      THEN get_date_time_from_str(resource_group.tags.createdAt)
      ELSE NoneTime

Abs(x) == IF x < 0 THEN 0 - x ELSE x

\* timedelta.days of a - b: the difference in whole days, rounded down
timedelta_days(a, b) == (a - b) \div Day

\* time_delta_greater_than_two_days with n_days >= 2
time_delta_greater_than_two_days_ge(n, resource_group_creation_time) ==
    IF resource_group_creation_time.none THEN FALSE
    ELSE Abs(timedelta_days(resource_group_creation_time.t, n)) >= 2

time_delta_greater_than_two_days(n, resource_group_creation_time) ==
    IF resource_group_creation_time.none THEN FALSE
    ELSE Abs(timedelta_days(resource_group_creation_time.t, n)) > 2

time_delta_greater_than_one_month(n, resource_group_creation_time) ==
    IF resource_group_creation_time.none THEN FALSE
    ELSE Abs(timedelta_days(resource_group_creation_time.t, n)) > 30

resource_group_has_persist_tag_as_true(resource_group) ==
    IF ~resource_group.tags.present THEN FALSE
    ELSE IF resource_group.tags.persist = Absent THEN FALSE
    ELSE Lower(resource_group.tags.persist) = "true"

resource_group_is_managed(resource_group) ==
    resource_group.managed_by # NotManaged

\* what resource_groups.begin_delete may answer: a poller, or an
\* HttpResponseError with this code (ResourceGroupNotFound comes as a
\* ResourceNotFoundError)
DeleteAnswers ==
    { "poller", "DenyAssignmentAuthorizationFailed", "ScopeLocked",
      "ResourceGroupNotFound", "Conflict" }

\* the try block around begin_delete
begin_delete(answer) ==
    IF answer = "poller" THEN [outcome |-> "deleting", exc |-> "None"]
    ELSE IF answer \in {"DenyAssignmentAuthorizationFailed", "ScopeLocked"}
      THEN [outcome |-> "delete refused", exc |-> "None"]
    ELSE IF answer = "ResourceGroupNotFound"
      THEN [outcome |-> "raised", exc |-> "ResourceNotFoundError"]
    ELSE [outcome |-> "raised", exc |-> "HttpResponseError"]

Skip(why) == [outcome |-> why, exc |-> "None", called |-> FALSE]
Deleted(answer) == [outcome |-> begin_delete(answer).outcome,
                    exc |-> begin_delete(answer).exc, called |-> TRUE]

\* process_resource_group: what it does with the group, the exception it
\* raises, whether it called begin_delete
process_resource_group(resource_group, n, dry, answer) ==
    LET creation_time == get_creation_time_of_resource_group(resource_group)
    IN  IF startswith(resource_group.name, "hcp-underlay-pers-")
          THEN IF creation_time.exc # "None"
                 THEN [outcome |-> "raised", exc |-> creation_time.exc,
                       called |-> FALSE]
               ELSE IF creation_time.none
                 THEN Skip("no createdAt tag")
               ELSE IF ~time_delta_greater_than_one_month(n, creation_time)
                 THEN Skip("not older than one month")
               ELSE IF dry THEN Skip("dry run")
               ELSE Deleted(answer)
        ELSE IF resource_group_has_persist_tag_as_true(resource_group)
          THEN Skip("persist")
        ELSE IF resource_group_is_managed(resource_group)
          THEN Skip("managed")
        ELSE IF creation_time.exc # "None"
          THEN [outcome |-> "raised", exc |-> creation_time.exc,
                called |-> FALSE]
        ELSE IF ~time_delta_greater_than_two_days(n, creation_time)
          THEN Skip("not older than two days")
        ELSE IF dry THEN Skip("dry run")
        ELSE Deleted(answer)

\* the dashboards program is not running
GrafanaIdle ==
    /\ config = [dashboardFolders |-> <<>>, azureManagedFolders |-> <<>>]
    /\ dry_run = FALSE
    /\ rFolders = <<>>
    /\ rDash = <<>>
    /\ pc = "idle"
    /\ run = 1
    /\ existing_folders = <<>>
    /\ existing_dashboards = <<>>
    /\ fi = 0
    /\ di = 0
    /\ ri = 0
    /\ folder_uid = ""
    /\ dashboards_visited = {}
    /\ dashboard_validation_errors = <<>>
    /\ dashboard_validation_warnings = <<>>
    /\ calls = <<>>
    /\ exit_status = NoStatus

InitCleanup ==
    /\ GrafanaIdle
    /\ subscription \in Subscriptions
    /\ now = Now
    /\ DRY_RUN \in BOOLEAN
    /\ cpc = "main"
    /\ resource_groups_list = <<>>
    /\ rgi = 0
    /\ begin_delete_calls = <<>>
    /\ outcomes = <<>>

\* process_resource_groups_of_subscription: list(resource_groups.list())
ListGroups ==
    /\ cpc = "main"
    /\ resource_groups_list' = subscription
    /\ rgi' = 1
    /\ cpc' = "loop"
    /\ UNCHANGED << gvars, subscription, now, DRY_RUN, begin_delete_calls,
                    outcomes >>

\* one turn of the loop: process_resource_group inside its try block
ProcessGroup ==
    /\ cpc = "loop"
    /\ rgi <= Len(resource_groups_list)
    /\ \E answer \in DeleteAnswers :
         LET resource_group == resource_groups_list[rgi]
             done == process_resource_group(resource_group, now, DRY_RUN,
                                            answer)
         IN  /\ ~done.called => answer = "poller"
             /\ outcomes' = Append(outcomes, done)
             /\ begin_delete_calls' =
                  IF done.called
                    THEN Append(begin_delete_calls, resource_group.name)
                    ELSE begin_delete_calls
             /\ subscription' =
                  IF done.outcome = "deleting"
                    THEN SelectSeq(subscription,
                            LAMBDA g : g.name # resource_group.name)
                    ELSE subscription
             /\ IF done.exc \in {"None", "ResourceNotFoundError"}
                  THEN cpc' = "loop" /\ rgi' = rgi + 1
                  ELSE cpc' = "crashed" /\ rgi' = rgi
    /\ UNCHANGED << gvars, now, DRY_RUN, resource_groups_list >>

\* main: the loop is over, the runbook has finished
Finish ==
    /\ cpc = "loop"
    /\ rgi > Len(resource_groups_list)
    /\ cpc' = "finished"
    /\ UNCHANGED << gvars, subscription, now, DRY_RUN, resource_groups_list,
                    rgi, begin_delete_calls, outcomes >>

NextCleanup ==
    \/ ListGroups
    \/ ProcessGroup
    \/ Finish

SpecCleanup == InitCleanup /\ [][NextCleanup]_vars

\* ----------------------------------------------------------------- claims
CallIdx(op, r) == { j \in 1..Len(calls) : calls[j].op = op /\ calls[j].run = r }

Desired(f, d) == Folders[f].dashboards[d]

\* the run has gone through its report step
Reported == pc = "exited" /\ exit_status \in {0, 1}

\* C1: idempotence of create_dashboard: once a desired dashboard that has a
\* uid was written to a folder and the instance stores that body with its
\* own id and version, the next run's create_dashboard call for the same
\* dashboard and folder issues no write.
C1_Idempotent ==
    \A j \in 1..Len(calls) :
        ~ /\ calls[j].op = "create_dashboard"
          /\ calls[j].run > 1
          /\ Truthy(calls[j].body.uid)
          /\ \E i \in CallIdx("create_dashboard", calls[j].run - 1) :
                /\ calls[i].fi = calls[j].fi
                /\ calls[i].di = calls[j].di
                /\ calls[i].folderUid = calls[j].folderUid
                /\ calls[i].executed /\ calls[i].ok
          /\ \E k \in CallIdx("show_existing_dashboard", calls[j].run) :
                /\ calls[k].fi = calls[j].fi
                /\ calls[k].di = calls[j].di
                /\ calls[k].ok
                /\ \E ver \in {"1", "2"} :
                      calls[k].body = Stored(calls[j].body, ver)

\* uid, id and version removed whatever they hold
StripMutable(b) == Del(Del(Del(b, "uid"), "id"), "version")

WritesFor(r, f, d) ==
    { j \in CallIdx("create_dashboard", r) :
        calls[j].fi = f /\ calls[j].di = d }

\* C2: diff correctness: with exactly one remote match, bodies that differ
\* only in uid, id or version are judged equal and nothing is written;
\* bodies that differ in a templating entry are judged unequal and exactly
\* one write is issued.
C2_DiffCorrect ==
    \A k \in 1..Len(calls) :
        (calls[k].op = "show_existing_dashboard" /\ calls[k].ok) =>
            LET desired == Desired(calls[k].fi, calls[k].di)
                writes == WritesFor(calls[k].run, calls[k].fi, calls[k].di)
            IN  /\ StripMutable(calls[k].body) = StripMutable(desired)
                     => writes = {}
                /\ calls[k].body.templating # desired.templating
                     => Cardinality(writes) = 1

DeletesFor(r, i) == { j \in CallIdx("delete_dashboard", r) : calls[j].ri = i }

\* the reclaim loop of the current run has gone over existing_dashboards[i]
Reclaimed(i) ==
    \/ pc = "reclaim" /\ i < ri
    \/ pc = "report" /\ i <= Len(existing_dashboards)
    \/ Reported /\ i <= Len(existing_dashboards)

KeyOf(d) == VisitedKey(FolderUidOf(d), d.title)

\* C3: a listed remote dashboard whose key folderUid_title is in the visited
\* set gets no delete call, whatever the protected folders are.
C3_VisitedNeverDeleted ==
    \A i \in 1..Len(existing_dashboards) :
        KeyOf(existing_dashboards[i]) \in dashboards_visited
            => DeletesFor(run, i) = {}

C3_Witness ==
    /\ pc = "report"
    /\ config.azureManagedFolders = <<>>
    /\ \E i \in 1..Len(existing_dashboards) :
          KeyOf(existing_dashboards[i]) \in dashboards_visited

\* C4 as first stated: an unvisited remote dashboard whose folderUid (empty
\* when missing) equals the uid folder resolution returns for a protected
\* folder name (empty when no folder has that title) gets no delete call.
C4_ProtectedByAnyResolution ==
    \A i \in 1..Len(existing_dashboards) :
      \A p \in Range(config.azureManagedFolders) :
        (/\ KeyOf(existing_dashboards[i]) \notin dashboards_visited
         /\ get_folder_uid(p, existing_folders)
              = FolderUidOf(existing_dashboards[i]))
            => DeletesFor(run, i) = {}

\* C4: an unvisited remote dashboard gets no delete call when folder
\* resolution returns a non-empty uid for some protected folder name and
\* that uid equals the dashboard's folderUid.
C4_ProtectedNeverDeleted ==
    \A i \in 1..Len(existing_dashboards) :
      \A p \in Range(config.azureManagedFolders) :
        (/\ KeyOf(existing_dashboards[i]) \notin dashboards_visited
         /\ get_folder_uid(p, existing_folders) # ""
         /\ get_folder_uid(p, existing_folders)
              = FolderUidOf(existing_dashboards[i]))
            => DeletesFor(run, i) = {}

C4_Witness ==
    /\ pc = "report"
    /\ \E i \in 1..Len(existing_dashboards) :
        \E p \in Range(config.azureManagedFolders) :
          /\ KeyOf(existing_dashboards[i]) \notin dashboards_visited
          /\ get_folder_uid(p, existing_folders) # ""
          /\ get_folder_uid(p, existing_folders)
               = FolderUidOf(existing_dashboards[i])

\* no listed folder that bears a protected name has the dashboard's folderUid
Unprotected(d) ==
    \A p \in Range(config.azureManagedFolders) :
      \A f \in Range(existing_folders) :
        f.title = p => f.uid # FolderUidOf(d)

AllProcessed ==
    /\ fi = Len(Folders)
    /\ fi > 0 => di = Len(Folders[fi].dashboards)
    /\ \A f \in 1..Len(Folders) :
        \A d \in 1..Len(Folders[f].dashboards) :
          \E u \in {""} \cup { x.uid : x \in Range(rFolders) } :
            VisitedKey(u, Desired(f, d).title) \in dashboards_visited

ApplyBeforeReclaim ==
    /\ CallIdx("delete_dashboard", run) # {} => AllProcessed
    /\ \A i, j \in 1..Len(calls) :
         (/\ i < j
          /\ calls[i].run = calls[j].run
          /\ calls[i].op = "delete_dashboard")
            => calls[j].op \notin {"create_folder", "create_dashboard"}

\* C6: two phases: within a run the visited set only grows, and only in the
\* apply phase; the reclaim phase leaves it alone; no delete call is issued
\* before every desired dashboard is processed, so every folder-create and
\* dashboard-write call of a run precedes its first delete call.
C6_TwoPhase ==
    /\ [][ /\ run' = run => dashboards_visited \subseteq dashboards_visited'
           /\ pc = "reclaim" => dashboards_visited' = dashboards_visited
           /\ (run' = run /\ dashboards_visited' # dashboards_visited)
                => pc = "apply" ]_vars
    /\ []ApplyBeforeReclaim

C6_Witness ==
    /\ pc = "report"
    /\ CallIdx("delete_dashboard", run) # {}
    /\ CallIdx("create_dashboard", run) # {}
    /\ CallIdx("create_folder", run) # {}
    /\ Len(Folders) = 2

\* C7: resolving twice, in one run, a folder name that the listing lacks
\* returns the same uid and issues at most one create-folder call.
C7_Memoizing ==
    \A i, j \in CallIdx("create_folder", run) :
        calls[i].arg = calls[j].arg
            => i = j /\ calls[i].folderUid = calls[j].folderUid

NewCalls == SubSeq(calls', Len(calls) + 1, Len(calls'))

\* C8: get_or_create_folder returns the uid of the listed folder bearing
\* exactly that title and creates nothing; when none bears it, it issues one
\* create-folder call with that name and returns the uid of the folder
\* created, or the empty string in a dry run.
C8_GetOrCreateFolder ==
    [][ pc = "folder" =>
          LET name == Folders[fi].name
              listed == { i \in 1..Len(existing_folders) :
                            existing_folders[i].title = name }
          IN  IF listed # {}
                THEN /\ NewCalls = <<>>
                     /\ rFolders' = rFolders
                     /\ pc' # "exited"
                     /\ \E i \in listed :
                          folder_uid' = existing_folders[i].uid
                ELSE /\ Len(NewCalls) = 1
                     /\ NewCalls[1].op = "create_folder"
                     /\ NewCalls[1].arg = name
                     /\ NewCalls[1].executed = ~dry_run
                     /\ IF dry_run
                          THEN folder_uid' = "" /\ rFolders' = rFolders
                        ELSE IF NewCalls[1].ok
                          THEN rFolders' =
                                 Append(rFolders, [title |-> name,
                                                   uid |-> folder_uid'])
                          ELSE pc' = "exited" ]_vars

C8_Witness ==
    /\ pc = "report"
    /\ ~dry_run
    /\ \E f, g \in 1..Len(Folders) :
        /\ Folders[f].name = "Svc"
        /\ Folders[g].name = "svc"
        /\ \E x \in Range(existing_folders) : x.title = "svc"
        /\ \A x \in Range(existing_folders) : x.title # "Svc"
        /\ \E j \in CallIdx("create_folder", run) :
              calls[j].arg = "Svc" /\ calls[j].ok

\* C9: resolving a title that two or more listed folders bear raises an
\* error and stops the run.
C9_AmbiguousFails ==
    [][ (/\ pc = "folder"
         /\ Cardinality({ i \in 1..Len(existing_folders) :
                existing_folders[i].title = Folders[fi].name }) >= 2)
          => pc' = "crashed" ]_vars

\* C10: a dashboard on which validate_dashboard_errors returns a message
\* never stops the run: unless a remote command fails, the run ends through
\* its report step with status 1 and the message is among the errors.
C10_ValidationNeverStops ==
    (pc \in {"exited", "crashed"} /\ exit_status # FailCode) =>
        \A f \in 1..Len(Folders) :
          \A d \in 1..Len(Folders[f].dashboards) :
            LET error ==
                  validate_dashboard_errors([dashboard |-> Desired(f, d)])
            IN  error # NoError =>
                  /\ pc = "exited"
                  /\ exit_status = 1
                  /\ \E k \in 1..Len(dashboard_validation_errors) :
                        /\ dashboard_validation_errors[k][1] = Folders[f].name
                        /\ dashboard_validation_errors[k][3] = error

\* the dashboard that the loop of main is at
Current == Folders[fi].dashboards[di]

\* C11: at the report step the run exits with a non-zero status exactly
\* when at least one validation error was collected; the warnings have no
\* part in the status.
C11_StatusIffErrors ==
    [][ pc = "report" =>
          /\ pc' = "exited"
          /\ exit_status' # 0 <=> dashboard_validation_errors # <<>> ]_vars

C11_Witness ==
    /\ Reported
    /\ exit_status = 0
    /\ dashboard_validation_warnings # <<>>
    /\ dashboard_validation_errors = <<>>

\* the seven rules in their priority order: TRUE where the rule fails
RuleFails(b) ==
    << b = EmptyBody,
       ~Truthy(b.title),
       ~Truthy(b.uid),
       Len(b.uid) > 40,
       ~b.templating.present \/ b.templating = TEmptyDict,
       b.templating.list = <<>>,
       ~ \E v \in Range(b.templating.list) : v.query = "prometheus" >>

RuleMessages ==
    << "Invalid dashboard, missing 'dashboard' key",
       "Invalid dashboard, missing 'title' key",
       "Invalid dashboard, missing 'uid' key",
       "Dashboard uid is too long, must be less than 40 characters",
       "Dashboard is missing 'templating' key",
       "Dashboard does not have any variables set",
       "Dashboard does not have a datasource of type prometheus" >>

FirstFailing(b) ==
    LET failing == { k \in 1..7 : RuleFails(b)[k] }
    IN  IF failing = {} THEN NoError
        ELSE RuleMessages[CHOOSE k \in failing : \A m \in failing : k <= m]

\* C12: validate_dashboard_errors returns the message of the first failing
\* rule in the priority order of the seven rules and no message exactly
\* when all seven pass; a uid of 40 characters passes the length rule, a
\* uid of 41 characters fails it (stated for every dashboard of the
\* configuration when a run starts, the configuration being the same all
\* along); the message recorded by main for the current dashboard is that
\* one.
C12_FirstFailingRule ==
    /\ pc = "list" =>
         /\ \A f \in 1..Len(Folders) :
              \A d \in 1..Len(Folders[f].dashboards) :
                validate_dashboard_errors([dashboard |-> Desired(f, d)])
                   = FirstFailing(Desired(f, d))
         /\ validate_dashboard_errors(
                [dashboard |-> [Good EXCEPT !.uid = Uid40]]) = NoError
         /\ validate_dashboard_errors(
                [dashboard |-> [Good EXCEPT !.uid = Uid41]]) = RuleMessages[4]
    /\ pc = "apply" =>
         LET n == Len(dashboard_validation_errors)
             recorded == /\ n > 0
                         /\ dashboard_validation_errors[n] =
                              << Folders[fi].name, Current.title,
                                 FirstFailing(Current) >>
         IN  FirstFailing(Current) # NoError => recorded

C12_Witness ==
    /\ pc = "apply"
    /\ Len(Current.uid) = 41
    /\ dashboard_validation_errors =
         << << Folders[fi].name, Current.title, RuleMessages[4] >> >>

\* a variable named datasource exists and the first such has no regex
DatasourceWithoutRegex(b) ==
    \E i \in 1..Len(b.templating.list) :
        /\ b.templating.list[i].name = "datasource"
        /\ \A k \in 1..(i - 1) : b.templating.list[k].name # "datasource"
        /\ ~Truthy(b.templating.list[i].regex)

\* C13: the validation step records a warning for the current dashboard if
\* and only if the dashboard has a variable named datasource without a
\* regex; a dashboard with no variable of that name gets no warning.
C13_WarnsIffDatasourceNoRegex ==
    [][ (pc = "validate" /\ pc' = "apply") =>
          ((dashboard_validation_warnings' # dashboard_validation_warnings)
              <=> DatasourceWithoutRegex(Current)) ]_vars

\* C14: a remote command that fails is the last call of the run: the run has
\* ended with the status of the failure, nothing is written and no delete
\* call is issued after it.
C14_FailureIsFatal ==
    \A j \in 1..Len(calls) :
        (calls[j].executed /\ ~calls[j].ok) =>
            /\ j = Len(calls)
            /\ pc = "exited"
            /\ exit_status = FailCode

C14_Witness ==
    /\ pc = "exited"
    /\ exit_status = FailCode
    /\ calls[Len(calls)].op = "show_existing_dashboard"
    /\ ~calls[Len(calls)].ok
    /\ \E i \in 1..Len(existing_dashboards) :
          /\ KeyOf(existing_dashboards[i]) \notin dashboards_visited
          /\ Unprotected(existing_dashboards[i])

\* the listing holds more than one entry with the uid of the current
\* dashboard in its target folder
DuplicateMatch ==
    Len(dashboard_found(Current, folder_uid, existing_dashboards)) > 1

\* C15: when the listing holds more than one entry with the desired uid in
\* the target folder, create_dashboard raises before it fetches or writes
\* anything, and the run stops with no delete call issued.
C15_DuplicateAborts ==
    /\ [][ (pc = "apply" /\ DuplicateMatch) =>
              /\ pc' = "crashed"
              /\ calls' = calls
              /\ rDash' = rDash ]_vars
    /\ [] ((pc = "crashed" /\ DuplicateMatch) =>
              CallIdx("delete_dashboard", run) = {})

C15_Witness ==
    /\ pc = "crashed"
    /\ fi > 0 /\ di > 0
    /\ DuplicateMatch
    /\ CallIdx("show_existing_dashboard", run) = {}
    /\ CallIdx("create_dashboard", run) = {}

\* the createdAt tag of the group holds a string that is no date
Unparsable(resource_group) ==
    /\ resource_group.tags.present
    /\ resource_group.tags.createdAt.kind = "garbage"

\* C16: for a resource group whose createdAt tag cannot be parsed,
\* get_creation_time_of_resource_group returns None and raises nothing, as
\* for a group without the tag, and processing the group raises nothing.
C16_UnparsableIsNone ==
    \A i \in 1..Len(resource_groups_list) :
        Unparsable(resource_groups_list[i]) =>
            /\ get_creation_time_of_resource_group(resource_groups_list[i])
                  = NoneTime
            /\ i <= Len(outcomes) => outcomes[i].exc = "None"

\* C17: for N = 2 and N = 30 the age test is TRUE exactly when the distance
\* between now and the creation time is strictly greater than N days,
\* whether the creation time is in the past or in the future.
C17_AgeThreshold ==
    \A i \in 1..Len(resource_groups_list) :
        LET creation_time ==
              get_creation_time_of_resource_group(resource_groups_list[i])
            distance == Abs(now - creation_time.t)
        IN  creation_time.exc = "None" /\ ~creation_time.none =>
              /\ time_delta_greater_than_two_days(now, creation_time)
                    <=> distance > TwoDays * Day
              /\ time_delta_greater_than_one_month(now, creation_time)
                    <=> distance > OneMonth * Day

\* the instance still holds the listed dashboard
OnInstance(d) ==
    \E e \in Range(rDash) :
        e.body.uid = d.uid /\ FolderUidOf(e) = FolderUidOf(d)

\* C18: in a run that is not a dry run and has gone through its report step,
\* every listed dashboard that was unvisited and unprotected has left the
\* instance, its delete command having been executed; in a dry run no delete
\* command is executed.
C18_StaleRemoved ==
    /\ (Reported /\ ~dry_run) =>
         \A i \in 1..Len(existing_dashboards) :
           LET d == existing_dashboards[i]
           IN  (KeyOf(d) \notin dashboards_visited /\ Unprotected(d)) =>
                  /\ \E j \in DeletesFor(run, i) : calls[j].executed
                  /\ ~OnInstance(d)
    /\ dry_run =>
         \A j \in CallIdx("delete_dashboard", run) : ~calls[j].executed

\* the write calls of the current run that stored a dashboard with a uid
Stores ==
    { j \in CallIdx("create_dashboard", run) :
        calls[j].executed /\ calls[j].ok /\ Truthy(calls[j].body.uid) }

MatchedByDesired(d) ==
    \E f \in 1..Len(Folders) :
      \E k \in 1..Len(Folders[f].dashboards) :
        LET uid == get_folder_uid(Folders[f].name, existing_folders)
        IN  /\ uid # ""
            /\ uid = FolderUidOf(d)
            /\ Desired(f, k).uid = d.uid

\* C20: in a run that has gone through its report step, every listed
\* dashboard that no desired dashboard matches by uid and folder and whose
\* folder is not protected got a delete call, also when a desired dashboard
\* of the same folder bears its title.
C20_StaleReclaimed ==
    Reported =>
        \A i \in 1..Len(existing_dashboards) :
            (~MatchedByDesired(existing_dashboards[i])
               /\ Unprotected(existing_dashboards[i]))
                 => DeletesFor(run, i) # {}

\* the uid that get_or_create_folder returned for the folder of write call
\* j of the current run: the listed uid, else the uid in the answer of the
\* create_folder call made for that folder before the write
ReturnedFor(j) ==
    LET listed == get_folder_uid(Folders[calls[j].fi].name, existing_folders)
        creates == { k \in CallIdx("create_folder", run) :
                       k < j /\ calls[k].fi = calls[j].fi /\ calls[k].ok }
    IN  IF listed # "" THEN {listed}
        ELSE { calls[k].folderUid : k \in creates }

\* C21: no write call is issued for a dashboard of a folder that the run
\* is still to resolve, and every write call of the run carries as folderUid
\* the uid that get_or_create_folder returned for its folder: the listed
\* uid, or the uid that the create_folder call before it returned.
C21_WriteAfterFolder ==
    /\ pc = "folder" =>
         \A j \in CallIdx("create_dashboard", run) : calls[j].fi < fi
    /\ \A j \in CallIdx("create_dashboard", run) :
         /\ calls[j].fi >= 1
         /\ calls[j].folderUid \in ReturnedFor(j)
         /\ (calls[j].executed /\ calls[j].ok) =>
              \E x \in Range(rFolders) :
                 /\ x.uid = calls[j].folderUid
                 /\ x.title = Folders[calls[j].fi].name

\* a dashboard was written into a folder that the same run created
C21_Witness ==
    \E j \in CallIdx("create_dashboard", run) :
        /\ calls[j].executed /\ calls[j].ok
        /\ get_folder_uid(Folders[calls[j].fi].name, existing_folders) = ""
        /\ \E k \in CallIdx("create_folder", run) :
              /\ k < j
              /\ calls[k].executed /\ calls[k].ok
              /\ calls[k].fi = calls[j].fi
              /\ calls[k].folderUid = calls[j].folderUid
              /\ calls[k].folderUid # ""

\* desired dashboard d of folder f, the only desired one with its uid, keeps
\* the uid and the folder of listed entry i, under another title
Renamed(f, d, i) ==
    /\ Truthy(Desired(f, d).uid)
    /\ \A g \in 1..Len(Folders) :
         \A e \in 1..Len(Folders[g].dashboards) :
            Desired(g, e).uid = Desired(f, d).uid => (g = f /\ e = d)
    /\ Desired(f, d).uid = existing_dashboards[i].uid
    /\ get_folder_uid(Folders[f].name, existing_folders) # ""
    /\ get_folder_uid(Folders[f].name, existing_folders)
          = FolderUidOf(existing_dashboards[i])
    /\ Desired(f, d).title # existing_dashboards[i].title

\* C22: in a run that has gone through its report step, a desired dashboard
\* that keeps its uid and folder under a new title got exactly one write
\* call, and the listed entry with the old title got exactly one delete
\* call, whose identifier is the old title.
C22_RenameConverges ==
    Reported =>
        \A f \in 1..Len(Folders) :
          \A d \in 1..Len(Folders[f].dashboards) :
            \A i \in 1..Len(existing_dashboards) :
              Renamed(f, d, i) =>
                /\ Cardinality(WritesFor(run, f, d)) = 1
                /\ Cardinality(DeletesFor(run, i)) = 1
                /\ \A k \in DeletesFor(run, i) :
                      calls[k].arg = existing_dashboards[i].title

\* C23: in a dry run no create-folder, dashboard-write or delete command is
\* executed, only list and fetch commands are; a folder that is not listed
\* resolves to the empty uid; no step changes the folders or the dashboards
\* of the instance.
C23_DryRunFrame ==
    /\ [] (dry_run =>
            /\ \A j \in 1..Len(calls) :
                 calls[j].executed <=>
                    calls[j].op \in {"list_existing_folders",
                                     "list_existing_dashboards",
                                     "show_existing_dashboard"}
            /\ \A j \in CallIdx("create_folder", run) :
                 calls[j].folderUid = ""
            /\ (pc \in {"validate", "apply"} /\
                get_folder_uid(Folders[fi].name, existing_folders) = "")
                  => folder_uid = "")
    /\ [][ dry_run => rFolders' = rFolders /\ rDash' = rDash ]_vars

\* a dry run went through a missing folder, a write and a delete
C23_Witness ==
    /\ Reported
    /\ dry_run
    /\ CallIdx("create_folder", run) # {}
    /\ CallIdx("create_dashboard", run) # {}
    /\ CallIdx("delete_dashboard", run) # {}

\* the persist tag of the group is true in some casing, or managed_by is set
Protected(resource_group) ==
    \/ /\ resource_group.tags.present
       /\ resource_group.tags.persist \in {"true", "True"}
    \/ resource_group.managed_by # NotManaged

\* C24: process_resource_group never calls begin_delete on a resource group
\* whose persist tag is true or whose managed_by is set, whatever its name
\* and its age.
C24_ProtectedNeverDeleted ==
    \A i \in 1..Len(outcomes) :
        Protected(resource_groups_list[i]) => ~outcomes[i].called

\* the threshold that applies to a group of this name, in days
Threshold(name) ==
    IF startswith(name, "hcp-underlay-pers-") THEN OneMonth ELSE TwoDays

\* the group carries a createdAt tag that is a date further than its
\* threshold from now
OldEnough(resource_group) ==
    /\ resource_group.tags.present
    /\ resource_group.tags.createdAt.kind = "iso"
    /\ Abs(now - resource_group.tags.createdAt.t)
          > Threshold(resource_group.name) * Day

\* C25: begin_delete is called on a group only if DRY_RUN is false and the
\* group carries a createdAt tag whose distance from now exceeds the
\* threshold of its name; a group without createdAt tag is never deleted;
\* every begin_delete call is for a listed group and no group gets two.
C25_DeleteOnlyIfOld ==
    /\ \A i \in 1..Len(outcomes) :
         outcomes[i].called =>
            /\ ~DRY_RUN
            /\ OldEnough(resource_groups_list[i])
    /\ \A k \in 1..Len(begin_delete_calls) :
         /\ \E i \in 1..Len(outcomes) :
               /\ outcomes[i].called
               /\ resource_groups_list[i].name = begin_delete_calls[k]
         /\ \A m \in 1..Len(begin_delete_calls) :
               begin_delete_calls[m] = begin_delete_calls[k] => m = k

\* begin_delete was called on an ordinary group that is one second older
\* than two days
C25_Witness ==
    \E i \in 1..Len(outcomes) :
        /\ outcomes[i].called
        /\ ~startswith(resource_groups_list[i].name, "hcp-underlay-pers-")
        /\ now - resource_groups_list[i].tags.createdAt.t = TwoDays * Day + 1
        /\ begin_delete_calls # <<>>

====
